---- MODULE Spec2Model ----
(***************************************************************************)
(* Model of the `syntax` command line front-end (bin/syntax: main,         *)
(* extractMode, getGrammar, getLexGrammarData, parsers) and of the Lua     *)
(* tokenizer template with the Lua generator trait that fills it.          *)
(*                                                                         *)
(* Strings whose characters matter (modes, paths, tokenizer input) are     *)
(* sequences of one-character strings; <<>> is the empty string, which is  *)
(* also how an option that was not given (undefined, falsy) is written.    *)
(***************************************************************************)
EXTENDS Integers, Sequences, FiniteSets, TLC

VARIABLES
  argvMode,      \* the value of -m as typed, <<>> if not given
  options,       \* the nomnom options record (module-level `options`)
  fsGrammarLex,  \* the `lex` section of the grammar file on disk
  fsLexData,     \* the data of the external lex file on disk
  pc,            \* position of main()
  exitCode,      \* process exit code, -1 while running
  errorMsg,      \* which error() message (or uncaught exception) ended main
  setsGrammar,   \* what handleSets handed to SetsGenerator
  parserRun,     \* the key of `parsers` main invoked, <<>> if none
  pipeline,      \* the generic pipeline that key ran: "_genericLR", "LL1"
  grammar,       \* the grammar _genericLR / LL1 built
  conflictsData, \* the conflict records of the grammar's LR parsing table
  steps,         \* the steps of the parser pipeline run so far, in order
  lexGrammar,    \* the lex rules the Lua tokenizer was generated from
  tk,            \* the Lua Tokenizer object (self), with the global yytext
  lastCall,      \* how the last getNextToken call ended
  matches,       \* the rule matches made during the last getNextToken call
  consumed,      \* the lexemes matched so far, concatenated
  popResult,     \* what the last popState call returned
  calcSource,    \* the token string handed to the generated calc parser
  calcInput,     \* the tokens the parser has not shifted yet
  calcStack,     \* the parser's stack of symbols with their values
  calcResult,    \* the value the parser returned, -1 while it runs
  _lexHandlers,        \* the Lua generator's this._lexHandlers
  _productionHandlers, \* the Lua generator's this._productionHandlers
  built,         \* the buildSemanticAction calls: production and result
  written        \* the template data written: LEX_RULES and the handlers

cliVars == <<argvMode, options, fsGrammarLex, fsLexData, pc, exitCode,
             errorMsg, setsGrammar, parserRun, pipeline, grammar,
             conflictsData, steps>>

tokVars == <<lexGrammar, tk, lastCall, matches, consumed, popResult>>

calcVars == <<calcSource, calcInput, calcStack, calcResult>>

genVars == <<_lexHandlers, _productionHandlers, built, written>>

vars == <<cliVars, tokVars, calcVars, genVars>>

\* ------------------------------------------------------------------------
\* Characters and strings

LowerChars == <<"a", "b", "c", "f", "g", "l", "o", "r", "s", "y">>
UpperChars == <<"A", "B", "C", "F", "G", "L", "O", "R", "S", "Y">>

\* String.prototype.toUpperCase on one character.
ToUpperChar(c) ==
  IF \E i \in 1..Len(LowerChars) : LowerChars[i] = c
    THEN UpperChars[CHOOSE i \in 1..Len(LowerChars) : LowerChars[i] = c]
    ELSE c

\* Mutant: the mode is kept as typed.
normalizeModeAsTyped(mode) == mode

normalizeMode(mode) == [i \in 1..Len(mode) |-> ToUpperChar(mode[i])]

\* The position of the last occurrence of character c in s, 0 if none.
LastIndexOf(s, c) ==
  IF \E i \in 1..Len(s) : s[i] = c
    THEN CHOOSE i \in 1..Len(s) :
           s[i] = c /\ \A j \in (i + 1)..Len(s) : s[j] # c
    ELSE 0

\* path.extname: from the last "." of the last path portion to its end;
\* empty when that portion has no "." or only a leading one.
Extname(p) ==
  LET base == SubSeq(p, LastIndexOf(p, "/") + 1, Len(p))
      dot  == LastIndexOf(base, ".")
  IN  IF dot <= 1 THEN <<>> ELSE SubSeq(base, dot, Len(base))

\* String.prototype.slice(1)
Slice1(s) == IF Len(s) = 0 THEN <<>> ELSE Tail(s)

\* ------------------------------------------------------------------------
\* Modes and parsers

LR0           == <<"L", "R", "0">>
SLR1          == <<"S", "L", "R", "1">>
CLR1          == <<"C", "L", "R", "1">>
LALR1         == <<"L", "A", "L", "R", "1">>
LALR1_BY_SLR1 == LALR1 \o <<"_", "B", "Y", "_">> \o SLR1
LALR1_BY_CLR1 == LALR1 \o <<"_", "B", "Y", "_">> \o CLR1
LL1           == <<"L", "L", "1">>
genericLR     == <<"_", "g", "e", "n", "e", "r", "i", "c", "L", "R">>

\* Keys of grammar-mode's MODES (key and value are the same string).
GRAMMAR_MODE == {LR0, SLR1, CLR1, LALR1, LALR1_BY_SLR1, LALR1_BY_CLR1, LL1}

\* Own keys of the `parsers` object.
ParserKeys ==
  {LR0, SLR1, CLR1, LALR1, LALR1_BY_SLR1, LALR1_BY_CLR1, genericLR, LL1}

\* parsers[key](options): which pipeline runs and the mode getGrammar gets.
parsers(key) ==
  CASE key = LR0           -> [pipeline |-> "_genericLR", mode |-> LR0]
    [] key = SLR1          -> [pipeline |-> "_genericLR", mode |-> SLR1]
    [] key = CLR1          -> [pipeline |-> "_genericLR", mode |-> CLR1]
    [] key = LALR1         -> [pipeline |-> "_genericLR", mode |-> LALR1_BY_SLR1]
    [] key = LALR1_BY_SLR1 -> [pipeline |-> "_genericLR", mode |-> LALR1_BY_SLR1]
    [] key = LALR1_BY_CLR1 -> [pipeline |-> "_genericLR", mode |-> LALR1_BY_CLR1]
    [] key = LL1           -> [pipeline |-> "LL1", mode |-> LL1]

\* ------------------------------------------------------------------------
\* Lex grammar data

\* A JS lex data object: null, or an object whose `rules` and `options`
\* properties may be missing; `ci` is options['case-insensitive'] === true.
NullData == [isNull |-> TRUE, hasRules |-> FALSE, rules |-> <<>>,
             hasOptions |-> FALSE, ci |-> FALSE]

LexData(rules) == [isNull |-> FALSE, hasRules |-> TRUE, rules |-> rules,
                   hasOptions |-> FALSE, ci |-> FALSE]

\* The rule --ignore-whitespaces injects: ['\\s+', '']
WhitespaceRule == <<"\\s+", "">>

getLexGrammarData(opts) ==
  LET d1 == IF opts.lex # "" THEN fsLexData ELSE NullData
      d2 == IF opts.ignoreWhitespaces /\ d1.isNull
              THEN LexData(<<WhitespaceRule>>)
              ELSE d1
      d3 == IF ~opts.caseInsensitive THEN d2
            ELSE [isNull |-> FALSE, hasRules |-> d2.hasRules,
                  rules |-> d2.rules, hasOptions |-> TRUE, ci |-> TRUE]
  IN  d3

\* Grammar.fromData(grammarData, {mode, captureLocations}): keeps the lex
\* data and the mode it is given.
GrammarFromData(lex, mode) ==
  [kind |-> "grammar", lex |-> lex, mode |-> mode]

NoGrammar == [kind |-> "none", lex |-> NullData, mode |-> <<>>]

\* Mutant: the external rules are put before the embedded ones.
getGrammarPrepend(grammarFile, mode) ==
  IF grammarFile = <<>> THEN [NoGrammar EXCEPT !.kind = "null"]
  ELSE
    LET lexGrammarData == getLexGrammarData(options) IN
    IF fsGrammarLex.isNull
      THEN GrammarFromData(lexGrammarData, mode)
    ELSE IF ~lexGrammarData.isNull
      THEN IF lexGrammarData.hasRules /\ fsGrammarLex.hasRules
             THEN GrammarFromData(
                    [fsGrammarLex EXCEPT
                       !.rules = lexGrammarData.rules \o fsGrammarLex.rules],
                    mode)
             ELSE [NoGrammar EXCEPT !.kind = "TypeError"]
    ELSE GrammarFromData(fsGrammarLex, mode)

\* getGrammar(grammarFile, mode).  kind "null": no grammar file; kind
\* "TypeError": the spread of an undefined `rules` threw.
getGrammar(grammarFile, mode) ==
  IF grammarFile = <<>> THEN [NoGrammar EXCEPT !.kind = "null"]
  ELSE
    LET lexGrammarData == getLexGrammarData(options) IN
    IF fsGrammarLex.isNull
      THEN GrammarFromData(lexGrammarData, mode)
    ELSE IF ~lexGrammarData.isNull
      THEN IF lexGrammarData.hasRules /\ fsGrammarLex.hasRules
             THEN GrammarFromData(
                    [fsGrammarLex EXCEPT
                       !.rules = fsGrammarLex.rules \o lexGrammarData.rules],
                    mode)
             ELSE [NoGrammar EXCEPT !.kind = "TypeError"]
    ELSE GrammarFromData(fsGrammarLex, mode)

\* ------------------------------------------------------------------------
\* extractMode

extractMode(opts) ==
  LET m1 == IF opts.mode = <<>> /\ opts.grammar # <<>>
              THEN Slice1(Extname(opts.grammar))
              ELSE opts.mode
      m2 == normalizeMode(m1)
  IN  IF m1 = <<>> THEN [mode |-> <<>>, error |-> "mode required"]
      ELSE IF m2 \notin GRAMMAR_MODE
        THEN [mode |-> <<>>, error |-> "not a valid parsing mode"]
      ELSE IF m2 \notin ParserKeys
        THEN [mode |-> <<>>, error |-> "not implemented yet"]
      ELSE [mode |-> m2, error |-> ""]

isTokenizerOnly(opts) ==
  opts.tokenizerOnly \/ (opts.lex # "" /\ opts.grammar = <<>>)


\* ------------------------------------------------------------------------
\* Lua tokenizer: the generated tables

Range(f) == {f[i] : i \in DOMAIN f}

\* A Lua pattern is a sequence of single-character classes, each taken
\* once ("1"), one or more times ("+") or zero or more times ("*"), with
\* or without a leading "^".
Item(cls, q) == [cls |-> cls, q |-> q]

\* What a rule handler returns: nil, a string, or a table of strings.
ReturnsNil       == [kind |-> "nil", val |-> <<>>]
Returns(type)    == [kind |-> "string", val |-> <<type>>]
ReturnsTable(ts) == [kind |-> "table", val |-> ts]

\* LexRule.getRawMatcher(): the matcher source with "^" put before it.
getRawMatcher(lexRule) == [anchored |-> TRUE, items |-> lexRule.matcher]

\* generateLexRules, the handlers it pushes: {args: '', action}.
lexHandlers(rules) ==
  [i \in 1..Len(rules) |-> [args |-> "", action |-> rules[i].action]]

\* generateLexRules, the LEX_RULES table: entry i is the raw matcher with
\* the flags appended and the name "_lexRule<n>", n the number of handlers
\* pushed so far.
generateLexRules(rules) ==
  [i \in 1..Len(rules) |->
     [pattern |->
        [anchored |-> getRawMatcher(rules[i]).anchored,
         items |-> getRawMatcher(rules[i]).items \o
                     (IF rules[i].ci THEN <<Item({"i"}, "1")>> ELSE <<>>)],
      handler |-> Len(SubSeq(lexHandlers(rules), 1, i))]]

\* Mutant: the handlers are named after their 0-based index.
generateHandlersFromZero(handlers) ==
  [k \in 1..Len(handlers) |->
     [name |-> k - 1, args |-> handlers[k].args,
      action |-> handlers[k].action]]

\* _generateHandlers: handler at 0-based index k gets the name <k + 1>.
generateHandlers(handlers) ==
  [k \in 1..Len(handlers) |->
     [name |-> (k - 1) + 1, args |-> handlers[k].args,
      action |-> handlers[k].action]]

\* buildSemanticAction(production): the handlers after the call and the
\* name returned, n for "_handler<n>", 0 for null.
buildSemanticAction(handlers, production) ==
  IF production.action = ""
    THEN [handlers |-> handlers, ret |-> 0]
    ELSE [handlers |-> Append(handlers,
                              [args |-> production.params,
                               action |-> <<production.action, ";">>]),
          ret |-> Len(handlers) + 1]

\* A generator that has just been constructed.
NothingWritten ==
  [LEX_RULES |-> <<>>, LEX_RULE_HANDLERS |-> <<>>,
   PRODUCTION_HANDLERS |-> <<>>, handlers |-> FALSE]

GenIdle ==
  /\ _lexHandlers = <<>>
  /\ _productionHandlers = <<>>
  /\ built = <<>>
  /\ written = NothingWritten

\* generateLexRulesByStartConditions: per condition the 0-based indices
\* (getRuleIndex) of its rules, in rule order.
generateLexRulesByStartConditions(rules, conditions) ==
  [c \in conditions |->
     SelectSeq([i \in 1..Len(rules) |-> i - 1],
               LAMBDA k : c \in rules[k + 1].conds)]

TokenNames == <<"A", "B", "C", "X", "I", "WS", "$">>
TypeIds    == <<"1", "2", "3", "4", "5", "6", "7">>

\* tokensMap[name]; "nil" for a name that is no key (or is nil: <<>>).
tokensMap(name) ==
  IF name # <<>> /\ \E i \in 1..Len(TokenNames) : TokenNames[i] = name[1]
    THEN TypeIds[CHOOSE i \in 1..Len(TokenNames) : TokenNames[i] = name[1]]
    ELSE "nil"

EOF == <<"$">>

\* ------------------------------------------------------------------------
\* Lua string.find on the patterns above

\* The sum of the first j entries of the vector of lengths v.
SumTo(v, j) == Cardinality(UNION {{i} \X (1..v[i]) : i \in 1..j})

\* v gives each pattern item the number of characters of s it takes
\* from pos on: characters of its class, one for "1", at least one for
\* "+", any number for "*".
Takes(items, s, pos, v) ==
  /\ pos + SumTo(v, Len(items)) - 1 <= Len(s)
  /\ \A j \in 1..Len(items) :
       /\ items[j].q = "1" => v[j] = 1
       /\ items[j].q = "+" => v[j] >= 1
       /\ \A k \in 1..v[j] : s[pos + SumTo(v, j - 1) + k - 1] \in items[j].cls

\* v is tried before w by a matcher whose repetitions are greedy and back
\* off one character at a time: the first item they differ on takes more.
TriedBefore(v, w) ==
  \/ v = w
  \/ \E j \in 1..Len(v) :
       /\ v[j] > w[j]
       /\ \A i \in 1..(j - 1) : v[i] = w[i]

\* The least number of a non-empty set of numbers.
Min(S) == CHOOSE n \in S : \A m \in S : n <= m

\* The end of the match that takes the lengths tried first among ways.
FirstWay(pos, ways) ==
  IF ways = {} THEN -1
  ELSE pos - 1 +
       SumTo(CHOOSE v \in ways : \A w \in ways : TriedBefore(v, w),
             Len(CHOOSE v \in ways : TRUE))

\* The end of the match of items in s at pos (pos - 1 for an empty
\* match), -1 if there is none.
MatchItems(items, s, pos) ==
  FirstWay(pos,
           {v \in [1..Len(items) ->
                     0..(IF pos > Len(s) THEN 0 ELSE Len(s) - pos + 1)] :
              Takes(items, s, pos, v)})

\* The match of the pattern in s that starts first among the starts.
FindAmong(s, pattern, starts) ==
  IF starts = {} THEN [found |-> FALSE, s |-> 0, e |-> 0]
  ELSE [found |-> TRUE, s |-> Min(starts),
        e |-> MatchItems(pattern.items, s, Min(starts))]

\* s:find(pattern): the first start position with a match, only position
\* 1 when the pattern starts with "^".
StringFind(s, pattern) ==
  FindAmong(s, pattern,
            {p \in (IF pattern.anchored THEN {1} ELSE 1..(Len(s) + 1)) :
               MatchItems(pattern.items, s, p) # -1})

\* ------------------------------------------------------------------------
\* Lua tokenizer: the Tokenizer methods

initString(tokenizingString) ==
  [ _string |-> tokenizingString,
    _states |-> <<"INITIAL">>,
    _cursor |-> 0,
    _tokensQueue |-> <<>>,
    _currentLine |-> 1,
    _currentColumn |-> 0,
    _currentLineBeginOffset |-> 0,
    _tokenStartOffset |-> 0,
    _tokenEndOffset |-> 0,
    _tokenStartLine |-> 1,
    _tokenEndLine |-> 1,
    _tokenStartColumn |-> 0,
    _tokenEndColumn |-> 0,
    yytext |-> <<>> ]

getCurrentState(self) == self._states[Len(self._states)]

pushState(self, state) == [self EXCEPT !._states = Append(@, state)]

begin(self, state) == pushState(self, state)

\* Mutant: the bottom of the stack is what popState returns.
popStateReturnsFirst(self) ==
  IF Len(self._states) > 1
    THEN [self |-> [self EXCEPT
                      !._states = SubSeq(@, 1, Len(@) - 1)],
          ret |-> self._states[1]]
    ELSE [self |-> self, ret |-> self._states[1]]

\* popState: the object after the call and the value returned.
popState(self) ==
  IF Len(self._states) > 1
    THEN [self |-> [self EXCEPT
                      !._states = SubSeq(@, 1, Len(@) - 1)],
          ret |-> self._states[Len(self._states)]]
    ELSE [self |-> self, ret |-> self._states[1]]

\* Mutant: the end of the input is taken to be one past it.
isEOFPastEnd(self) == self._cursor = Len(self._string) + 1

isEOF(self) == self._cursor = Len(self._string)

hasMoreTokens(self) == self._cursor <= Len(self._string)

_captureLocation(self, matched) ==
  LET newlines == Cardinality({k \in 1..Len(matched) : matched[k] = "\n"})
      line     == self._currentLine + newlines
      lineBeginOffset == IF newlines > 0 THEN self._cursor + 1
                         ELSE self._currentLineBeginOffset
      endOffset == self._cursor + Len(matched)
  IN  [self EXCEPT
         !._tokenStartOffset = self._cursor,
         !._tokenStartLine = self._currentLine,
         !._tokenStartColumn = self._cursor - self._currentLineBeginOffset,
         !._currentLine = line,
         !._currentLineBeginOffset = lineBeginOffset,
         !._tokenEndOffset = endOffset,
         !._tokenEndLine = line,
         !._currentColumn = endOffset - lineBeginOffset,
         !._tokenEndColumn = endOffset - lineBeginOffset]

\* _match once stringRest:find(pattern) has returned f.
Found(self, stringRest, f) ==
  IF f.found
    THEN [ok |-> TRUE, matched |-> SubSeq(stringRest, f.s, f.e),
          self |-> [_captureLocation(self, SubSeq(stringRest, f.s, f.e))
                      EXCEPT !._cursor = self._cursor + (f.e - f.s + 1)]]
    ELSE [ok |-> FALSE, matched |-> <<>>, self |-> self]

\* _match: ok is "matched is not nil".
_match(self, stringRest, pattern) ==
  Found(self, stringRest, StringFind(stringRest, pattern))

\* How a getNextToken call ends: with a token, with EOF_TOKEN, with the
\* error throwUnexpectedToken raises, or not at all ("hang").
NoCall ==
  [kind |-> "none", type |-> "nil", value |-> <<>>,
   startOffset |-> 0, endOffset |-> 0, startLine |-> 0, endLine |-> 0,
   startColumn |-> 0, endColumn |-> 0,
   symbol |-> <<>>, line |-> 0, column |-> 0]

_toToken(self, tokenType, yytext) ==
  [NoCall EXCEPT
     !.kind = "token",
     !.type = tokensMap(tokenType),
     !.value = yytext,
     !.startOffset = self._tokenStartOffset,
     !.endOffset = self._tokenEndOffset,
     !.startLine = self._tokenStartLine,
     !.endLine = self._tokenEndLine,
     !.startColumn = self._tokenStartColumn,
     !.endColumn = self._tokenEndColumn]

EOF_TOKEN == [NoCall EXCEPT !.kind = "eof", !.type = tokensMap(EOF)]

throwUnexpectedToken(symbol, line, column) ==
  [NoCall EXCEPT !.kind = "error", !.symbol = symbol, !.line = line,
                 !.column = column]

\* self[name](): the return value of the generated handler of that name.
CallHandler(rules, name) ==
  LET handlers == generateHandlers(lexHandlers(rules))
  IN  (CHOOSE h \in Range(handlers) : h.name = name).action

\* Mutant: the loop goes on to the last rule that matches.
LastMatchingRule(hits) == CHOOSE i \in hits : \A j \in hits : j <= i

\* The for loop of getNextToken stops at the first rule that matches.
FirstMatch(hits) == CHOOSE i \in hits : \A j \in hits : i <= j

\* Mutant: the types after the first are queued last first.
HandlerReturnedReversed(self2, stringRest, tokenType, match) ==
  IF tokenType.kind = "nil" THEN
    [self |-> self2,
     ret |-> [NoCall EXCEPT
                !.kind = IF match.lexeme = <<>> /\ stringRest # <<>>
                           THEN "hang" ELSE "skip"],
     matches |-> <<match>>]
  ELSE IF tokenType.kind = "table" THEN
    [self |-> [self2 EXCEPT
                 !._tokensQueue =
                    [j \in 1..(Len(tokenType.val) - 1) |->
                       tokenType.val[Len(tokenType.val) + 1 - j]] \o @],
     ret |-> _toToken(self2, SubSeq(tokenType.val, 1, 1), match.lexeme),
     matches |-> <<match>>]
  ELSE
    [self |-> self2,
     ret |-> _toToken(self2, tokenType.val, match.lexeme),
     matches |-> <<match>>]

\* A rule matched and its handler returned tokenType; self2 is the object
\* after _match, the end-of-string cursor step and the yytext assignment.
\* kind "skip" stands for the tail call `return self:getNextToken()`,
\* kind "hang" for a tail call that finds the object as it was.
HandlerReturned(self2, stringRest, tokenType, match) ==
  IF tokenType.kind = "nil" THEN
    [self |-> self2,
     ret |-> [NoCall EXCEPT
                !.kind = IF match.lexeme = <<>> /\ stringRest # <<>>
                           THEN "hang" ELSE "skip"],
     matches |-> <<match>>]
  ELSE IF tokenType.kind = "table" THEN
    [self |-> [self2 EXCEPT
                 !._tokensQueue =
                    SubSeq(tokenType.val, 2, Len(tokenType.val)) \o @],
     ret |-> _toToken(self2, SubSeq(tokenType.val, 1, 1), match.lexeme),
     matches |-> <<match>>]
  ELSE
    [self |-> self2,
     ret |-> _toToken(self2, tokenType.val, match.lexeme),
     matches |-> <<match>>]

\* The body of the for loop for the rule that matched, m its _match.
RuleMatched(self, rules, stringRest, lexRuleIndex, lexRule, m) ==
  HandlerReturned(
    [m.self EXCEPT
       !._cursor = IF stringRest = <<>> /\ m.matched = <<>> THEN @ + 1 ELSE @,
       !.yytext = m.matched],
    stringRest,
    CallHandler(rules, lexRule.handler),
    [rule |-> lexRuleIndex, cursor |-> self._cursor, lexeme |-> m.matched,
     after |-> IF stringRest = <<>> /\ m.matched = <<>>
                 THEN m.self._cursor + 1 ELSE m.self._cursor,
     returned |-> CallHandler(rules, lexRule.handler)])

TryRule(self, rules, stringRest, lexRuleIndex, lexRule) ==
  RuleMatched(self, rules, stringRest, lexRuleIndex, lexRule,
              _match(self, stringRest, lexRule.pattern))

\* string.sub(s, 1, 1): the first character, empty for the empty string.
Sub11(s) == IF s = <<>> THEN <<>> ELSE SubSeq(s, 1, 1)

\* The for loop over the rules of the current state and what follows it;
\* hits are the positions in lexRulesForState of the rules that match.
AfterLoop(self, rules, stringRest, lexRules, lexRulesForState, hits) ==
      IF hits # {} THEN
        TryRule(self, rules, stringRest, lexRulesForState[FirstMatch(hits)],
                lexRules[lexRulesForState[FirstMatch(hits)] + 1])
      ELSE IF isEOF(self) THEN
        [self |-> [self EXCEPT !._cursor = @ + 1],
         ret |-> EOF_TOKEN, matches |-> <<>>]
      ELSE
        [self |-> self,
         ret |-> throwUnexpectedToken(Sub11(stringRest),
                                      self._currentLine,
                                      self._currentColumn),
         matches |-> <<>>]

TryRules(self, rules, stringRest, lexRules, lexRulesForState) ==
  AfterLoop(self, rules, stringRest, lexRules, lexRulesForState,
            {i \in 1..Len(lexRulesForState) :
               _match(self, stringRest,
                      lexRules[lexRulesForState[i] + 1].pattern).ok})

\* getNextToken up to its return, its error or its tail call.
getNextTokenBody(self, rules) ==
  IF Len(self._tokensQueue) > 0 THEN
    [self |-> [self EXCEPT !._tokensQueue = Tail(@)],
     ret |-> _toToken(self, <<Head(self._tokensQueue)>>, <<>>),
     matches |-> <<>>]
  ELSE IF ~hasMoreTokens(self) THEN
    [self |-> self, ret |-> EOF_TOKEN, matches |-> <<>>]
  ELSE
    TryRules(self, rules,
             SubSeq(self._string, self._cursor + 1, Len(self._string)),
             generateLexRules(rules),
             generateLexRulesByStartConditions(
               rules, {getCurrentState(self)})[getCurrentState(self)])

\* getNextToken: the body, run again for every tail call.  A tail call
\* is made only after a match that moved the cursor, so there are at most
\* #string + 1 of them.
getNextToken(self, rules) ==
  LET run[n \in 0..(Len(self._string) + 1)] ==
        IF n = 0 THEN getNextTokenBody(self, rules)
        ELSE IF run[n - 1].ret.kind # "skip" THEN run[n - 1]
        ELSE [getNextTokenBody(run[n - 1].self, rules) EXCEPT
                !.matches = run[n - 1].matches \o @]
  IN  run[Len(self._string) + 1]

\* ------------------------------------------------------------------------
\* The command lines and files main() is run on

Str_lr0    == <<"l", "r", "0">>
Str_Slr1   == <<"S", "l", "r", "1">>
Str_clr1   == <<"c", "l", "r", "1">>
Str_lalr1  == <<"l", "a", "l", "r", "1">>
Str_by_slr == Str_lalr1 \o <<"_", "b", "y", "_", "s", "l", "r", "1">>
Str_by_clr == LALR1 \o <<"_", "b", "y", "_", "C", "L", "R", "1">>
Str_ll1    == <<"L", "L", "1">>
Str_foo    == <<"f", "o", "o">>

\* Values of -m as typed.
ModeArgs ==
  {Str_lr0, Str_Slr1, Str_clr1, Str_lalr1, Str_by_slr, Str_by_clr, Str_ll1,
   Str_foo}

\* Values of -g: "g.lr0", "calc.lua.g", "ex/e.Lalr1", "a.b/ll1", ".slr1"
GrammarPaths ==
  { <<"g", ".", "l", "r", "0">>,
    <<"c", "a", "l", "c", ".", "l", "u", "a", ".", "g">>,
    <<"e", "x", "/", "e", ".", "L", "a", "l", "r", "1">>,
    <<"a", ".", "b", "/", "l", "l", "1">> ,
    <<".", "s", "l", "r", "1">> }

\* `lex` sections a grammar file may carry (NullData: none).
EmbeddedLexChoices ==
  { NullData,
    LexData(<< <<"\\d+", "return 'NUMBER'">>, <<"\\+", "return '+'">> >>) }

\* Contents an external lex file may have.
ExternalLexChoices ==
  { LexData(<< <<"[a-z]+", "return 'ID'">>, <<"\\d+", "return 'NUM'">> >>),
    [LexData(<< <<"\\d+", "return 'NUMBER'">> >>) EXCEPT !.hasOptions = TRUE] }

\* nomnom applies the option's `transform` to a value that was given.
NomnomMode(arg) == IF arg = <<>> THEN <<>> ELSE normalizeMode(arg)

OptionRecords(arg) ==
  [ mode : {NomnomMode(arg)},
    grammar : {<<>>} \cup GrammarPaths,
    lex : {"", "tokens.lex"},
    sets : {"", "all"},
    version : BOOLEAN,
    tokenizerOnly : BOOLEAN,
    ignoreWhitespaces : BOOLEAN,
    caseInsensitive : BOOLEAN,
    tokenize : BOOLEAN,
    output : BOOLEAN,
    parse : BOOLEAN,
    file : BOOLEAN,
    validate : {FALSE},
    table : {FALSE} ]

\* ------------------------------------------------------------------------
\* The calculator grammar (examples/calc.lua.g) and its generated parser

\* Mutant: "^" declared left-associative.
operatorsAllLeft == << <<"left", "+">>, <<"left", "*">>, <<"left", "^">> >>

\* The "operators" section, in its order.
operators == << <<"left", "+">>, <<"left", "*">>, <<"right", "^">> >>

\* The "bnf" section: the right-hand sides of E with their actions.
bnf ==
  << [rhs |-> <<"E", "+", "E">>, action |-> "$1 + $3"],
     [rhs |-> <<"E", "*", "E">>, action |-> "$1 * $3"],
     [rhs |-> <<"E", "^", "E">>, action |-> "$1 ^ $3"],
     [rhs |-> <<"NUMBER">>, action |-> "tonumber($1)"],
     [rhs |-> <<"(", "E", ")">>, action |-> "$2"] >>

\* The operator table: the level of a terminal is the position of its
\* entry in `operators` (ascending from 1), 0 for a terminal without entry.
OperatorLevel(t) ==
  IF \E i \in 1..Len(operators) : operators[i][2] = t
    THEN CHOOSE i \in 1..Len(operators) : operators[i][2] = t
    ELSE 0

OperatorAssoc(t) == operators[OperatorLevel(t)][1]

\* The precedence token of a production: its rightmost terminal that has
\* an entry in the operator table, "" if none.
PrecedenceToken(rhs) ==
  LET at == {i \in 1..Len(rhs) : OperatorLevel(rhs[i]) > 0}
  IN  IF at = {} THEN ""
      ELSE rhs[CHOOSE i \in at : \A j \in at : j <= i]

\* The conflict resolution policy for a shift-reduce conflict between the
\* production of right-hand side rhs and the terminal t.
ResolveSR(rhs, t) ==
  LET p == PrecedenceToken(rhs)
  IN  IF p = "" \/ OperatorLevel(t) = 0 THEN "unresolved"
      ELSE IF OperatorLevel(p) > OperatorLevel(t) THEN "reduce"
      ELSE IF OperatorLevel(p) < OperatorLevel(t) THEN "shift"
      ELSE IF OperatorAssoc(p) = "left" THEN "reduce"
      ELSE IF OperatorAssoc(p) = "right" THEN "shift"
      ELSE "nonassoc"

\* Numbers above MaxNumber are kept as Infinity.
MaxNumber == 100000
Infinity == MaxNumber + 1
Sat(x) == IF x > MaxNumber THEN Infinity ELSE x

RECURSIVE PowAcc(_, _, _)
PowAcc(a, b, acc) ==
  IF b = 0 \/ acc = Infinity THEN acc
  ELSE PowAcc(a, b - 1, Sat(acc * a))

\* The semantic actions of the grammar on the values of the handle.
SemanticAction(action, vals) ==
  CASE action = "$1 + $3" -> Sat(vals[1] + vals[3])
    [] action = "$1 * $3" -> Sat(vals[1] * vals[3])
    [] action = "$1 ^ $3" -> IF vals[1] = 1 THEN 1
                             ELSE PowAcc(vals[1], vals[3], 1)
    [] action = "tonumber($1)" -> vals[1]
    [] action = "$2" -> vals[2]

Token(type, value) == [sym |-> type, val |-> value]

\* The productions whose right-hand side is on top of the stack.
Handles(stack) ==
  {i \in 1..Len(bnf) :
     /\ Len(bnf[i].rhs) <= Len(stack)
     /\ \A k \in 1..Len(bnf[i].rhs) :
          stack[Len(stack) - Len(bnf[i].rhs) + k].sym = bnf[i].rhs[k]}

\* The table entry for the stack and the lookahead.  A state whose handle
\* is NUMBER or ( E ) only reduces; after E op E an operator can be
\* shifted too, and the policy decides.
ParserAction(stack, input) ==
  IF Handles(stack) = {} THEN
    IF input # <<>> THEN "shift"
    ELSE IF Len(stack) = 1 /\ stack[1].sym = "E" THEN "accept"
    ELSE "error"
  ELSE IF input = <<>> \/ OperatorLevel(input[1].sym) = 0 THEN "reduce"
  ELSE IF PrecedenceToken(bnf[CHOOSE i \in Handles(stack) : TRUE].rhs) = ""
    THEN "reduce"
  ELSE ResolveSR(bnf[CHOOSE i \in Handles(stack) : TRUE].rhs, input[1].sym)

\* The stack after the handle is replaced by E with the action's value.
Reduced(stack, i) ==
  LET n == Len(bnf[i].rhs)
      vals == [k \in 1..n |-> stack[Len(stack) - n + k].val]
  IN  Append(SubSeq(stack, 1, Len(stack) - n),
             Token("E", SemanticAction(bnf[i].action, vals)))

\* No parser is running.
CalcIdle ==
  /\ GenIdle
  /\ calcSource = <<>>
  /\ calcInput = <<>>
  /\ calcStack = <<>>
  /\ calcResult = -1

\* ------------------------------------------------------------------------
\* The steps of a parser pipeline

\* What the LR / LL interpreter does with the string: it returns a result
\* or throws.
ParseOutcomes == {"accepted", "threw"}

\* Mutant: the catch clause prints the stack and returns.
parseCaught(parsed) == [exits |-> FALSE]

\* parse(string, grammar): the catch clause ends the process.
parse(parsed) == [exits |-> parsed = "threw"]

\* tokenizeFromOptions(options, lexGrammar): error() when neither -p nor -f
\* was given.
tokenizeFromOptions(opts) ==
  IF ~opts.parse /\ ~opts.file
    THEN [exits |-> TRUE,
          message |-> "tokenization requires -p or -f parameter"]
    ELSE [exits |-> FALSE, message |-> ""]

\* A record of conflictsData: the symbol it is under, the type
\* LRParsingTable.getEntryType gives its conflict, and its `resolved`.
Conflict(symbol, type, resolved) ==
  [symbol |-> symbol, type |-> type, resolved |-> resolved]

\* Mutant: unresolved conflicts are an error.
validateLRGrammarStrict(records) ==
  [threw |-> \E i \in 1..Len(records) : ~records[i].resolved,
   hasConflicts |-> \E i \in 1..Len(records) : ~records[i].resolved,
   srConflicts |-> {}, rrConflicts |-> {}]

\* validateLRGrammar(grammar), on the conflict records of the table.
validateLRGrammar(records) ==
  LET unresolved == {i \in 1..Len(records) : ~records[i].resolved}
  IN  [threw |-> \E i \in unresolved :
                   records[i].type \notin {"SR_CONFLICT", "RR_CONFLICT"},
       hasConflicts |-> unresolved # {},
       srConflicts |-> {records[i].symbol :
                          i \in {k \in unresolved :
                                   records[k].type = "SR_CONFLICT"}},
       rrConflicts |-> {records[i].symbol :
                          i \in {k \in unresolved :
                                   records[k].type = "RR_CONFLICT"}}]

\* ------------------------------------------------------------------------
\* main()

\* No tokenizer has been generated or run.
TokenizerIdle ==
  /\ CalcIdle
  /\ lexGrammar = <<>>
  /\ tk = initString(<<>>)
  /\ lastCall = NoCall
  /\ matches = <<>>
  /\ consumed = <<>>
  /\ popResult = ""

Init ==
  /\ TokenizerIdle
  /\ argvMode \in {<<>>} \cup ModeArgs
  /\ options \in OptionRecords(argvMode)
  /\ fsGrammarLex \in EmbeddedLexChoices
  /\ fsLexData \in ExternalLexChoices
  /\ pc = "main"
  /\ exitCode = -1
  /\ errorMsg = ""
  /\ setsGrammar = NoGrammar
  /\ parserRun = <<>>
  /\ pipeline = ""
  /\ grammar = NoGrammar
  /\ conflictsData = <<>>
  /\ steps = <<>>

\* error(message): print and process.exit(1); an uncaught exception ends
\* the process with code 1 as well.
Exit1(msg) ==
  /\ pc' = "exit"
  /\ exitCode' = 1
  /\ errorMsg' = msg

\* main up to the dispatch on the kind of run.
Main ==
  /\ pc = "main"
  /\ UNCHANGED <<argvMode, options, fsGrammarLex, fsLexData, setsGrammar,
                 parserRun, pipeline, grammar, conflictsData, steps,
                 tokVars, calcVars, genVars>>
  /\ IF options.version /\ options.grammar = <<>> /\ options.lex = ""
       THEN pc' = "done" /\ exitCode' = 0 /\ errorMsg' = ""
     ELSE IF options.grammar = <<>> /\ options.lex = ""
       THEN Exit1("expected at least --grammar or --lex")
     ELSE /\ pc' = IF isTokenizerOnly(options) THEN "tokenizer"
                   ELSE IF options.sets # "" THEN "sets"
                   ELSE "extract"
          /\ UNCHANGED <<exitCode, errorMsg>>

handleStandaloneTokenizer ==
  /\ pc = "tokenizer"
  /\ UNCHANGED <<argvMode, options, fsGrammarLex, fsLexData, setsGrammar,
                 parserRun, pipeline, grammar, conflictsData, steps,
                 tokVars, calcVars, genVars>>
  /\ LET lexGrammarData == getLexGrammarData(options)
         g == getGrammar(options.grammar, options.mode)
     IN  IF lexGrammarData.isNull /\ g.kind # "grammar"
           THEN Exit1("TypeError")
         ELSE IF ~options.tokenize /\ ~options.output
           THEN Exit1("for tokenization pass either --tokenize or --output")
         ELSE IF options.tokenize /\ tokenizeFromOptions(options).exits
           THEN Exit1(tokenizeFromOptions(options).message)
         ELSE pc' = "done" /\ exitCode' = 0 /\ errorMsg' = ""

handleSets ==
  /\ pc = "sets"
  /\ UNCHANGED <<argvMode, options, fsGrammarLex, fsLexData, parserRun,
                 pipeline, grammar, conflictsData, steps, tokVars, calcVars, genVars>>
  /\ LET g == getGrammar(options.grammar, options.mode)
     IN  /\ setsGrammar' = g
         /\ IF g.kind = "TypeError"
              THEN Exit1("TypeError")
              ELSE pc' = "extract" /\ UNCHANGED <<exitCode, errorMsg>>

ExtractMode ==
  /\ pc = "extract"
  /\ UNCHANGED <<argvMode, fsGrammarLex, fsLexData, setsGrammar, parserRun,
                 pipeline, grammar, conflictsData, steps, tokVars, calcVars, genVars>>
  /\ LET r == extractMode(options)
     IN  IF r.error # ""
           THEN Exit1(r.error) /\ UNCHANGED options
           ELSE /\ options' = [options EXCEPT !.mode = r.mode]
                /\ pc' = "parser"
                /\ UNCHANGED <<exitCode, errorMsg>>

\* parsers[mode](options) up to the grammar: the grammar is built first;
\* the steps after it leave the grammar as built.
RunParser ==
  /\ pc = "parser"
  /\ UNCHANGED <<argvMode, options, fsGrammarLex, fsLexData, setsGrammar,
                 conflictsData, steps, tokVars, calcVars, genVars>>
  /\ parserRun' = options.mode
  /\ pipeline' = parsers(options.mode).pipeline
  /\ LET g == getGrammar(options.grammar, parsers(options.mode).mode)
     IN  /\ grammar' = g
         /\ IF g.kind = "TypeError"
              THEN Exit1("TypeError")
              ELSE pc' = "validate" /\ UNCHANGED <<exitCode, errorMsg>>

PipelineFrame ==
  UNCHANGED <<argvMode, options, fsGrammarLex, fsLexData, setsGrammar,
              parserRun, pipeline, grammar, conflictsData, tokVars, calcVars, genVars>>

\* _genericLR: `if (options.validate)` and `if (options.table)`; LL1 has
\* the table step only.
ValidateAndTable ==
  /\ pc = "validate"
  /\ PipelineFrame
  /\ LET validates == options.validate /\ pipeline = "_genericLR"
         v == validateLRGrammar(conflictsData)
     IN  IF validates /\ v.threw
           THEN /\ steps' = Append(steps, "validate threw")
                /\ Exit1("Unknown conflict type")
           ELSE /\ steps' = steps
                       \o (IF ~validates THEN <<>>
                           ELSE IF v.hasConflicts
                             THEN <<"validate: unresolved conflicts">>
                             ELSE <<"validate: no conflicts">>)
                       \o (IF options.table THEN <<"table">> ELSE <<>>)
                /\ pc' = "parseString"
                /\ UNCHANGED <<exitCode, errorMsg>>

\* `if (provided('parse')) parse(options.parse, grammar)`
ParseString ==
  /\ pc = "parseString"
  /\ PipelineFrame
  /\ IF ~options.parse
       THEN pc' = "parseFile" /\ UNCHANGED <<steps, exitCode, errorMsg>>
       ELSE \E parsed \in ParseOutcomes :
              /\ steps' = Append(steps, IF parsed = "threw" THEN "parse threw"
                                           ELSE "parse accepted")
              /\ IF parse(parsed).exits
                   THEN Exit1("parse failure")
                   ELSE pc' = "parseFile" /\ UNCHANGED <<exitCode, errorMsg>>

\* `if (provided('file')) parse(fs.readFileSync(options.file), grammar)`
ParseFile ==
  /\ pc = "parseFile"
  /\ PipelineFrame
  /\ IF ~options.file
       THEN pc' = "tokenize" /\ UNCHANGED <<steps, exitCode, errorMsg>>
       ELSE \E parsed \in ParseOutcomes :
              /\ steps' = Append(steps, IF parsed = "threw" THEN "file threw"
                                           ELSE "file accepted")
              /\ IF parse(parsed).exits
                   THEN Exit1("parse failure")
                   ELSE pc' = "tokenize" /\ UNCHANGED <<exitCode, errorMsg>>

\* `if (options['tokenize']) tokenizeFromOptions(...)`, then
\* `if (options.output)` the parser module is generated; main returns.
TokenizeAndOutput ==
  /\ pc = "tokenize"
  /\ PipelineFrame
  /\ IF options.tokenize /\ tokenizeFromOptions(options).exits
       THEN /\ steps' = steps
            /\ Exit1(tokenizeFromOptions(options).message)
       ELSE /\ steps' = steps
                   \o (IF options.tokenize THEN <<"tokens">> ELSE <<>>)
                   \o (IF options.output THEN <<"output">> ELSE <<>>)
            /\ pc' = "done" /\ exitCode' = 0 /\ errorMsg' = ""

Next ==
  \/ Main
  \/ handleStandaloneTokenizer
  \/ handleSets
  \/ ExtractMode
  \/ RunParser
  \/ ValidateAndTable
  \/ ParseString
  \/ ParseFile
  \/ TokenizeAndOutput

Spec == Init /\ [][Next]_vars

\* ------------------------------------------------------------------------
\* Invocations with --validate: the conflict records vary

MaxConflicts == 2

ConflictRecords ==
  {Conflict(symbol, type, resolved) :
     symbol \in {"+", "*"},
     type \in {"SR_CONFLICT", "RR_CONFLICT", "SHIFT"},
     resolved \in BOOLEAN}

RECURSIVE ConflictTables(_)
ConflictTables(n) ==
  IF n = 0 THEN {<<>>}
  ELSE LET shorter == ConflictTables(n - 1)
       IN  shorter \cup {Append(t, c) : t \in shorter, c \in ConflictRecords}

ValidateOptionRecords(arg) ==
  [ mode : {NomnomMode(arg)},
    grammar : {<<"c", "a", "l", "c", ".", "l", "u", "a", ".", "g">>},
    lex : {""},
    sets : {"", "all"},
    version : {FALSE},
    tokenizerOnly : BOOLEAN,
    ignoreWhitespaces : {FALSE},
    caseInsensitive : {FALSE},
    tokenize : {TRUE},
    output : BOOLEAN,
    parse : BOOLEAN,
    file : {FALSE},
    validate : BOOLEAN,
    table : BOOLEAN ]

InitValidate ==
  /\ TokenizerIdle
  /\ argvMode \in {Str_lalr1, Str_ll1}
  /\ options \in ValidateOptionRecords(argvMode)
  /\ fsGrammarLex \in EmbeddedLexChoices
  /\ fsGrammarLex # NullData
  /\ fsLexData \in ExternalLexChoices
  /\ fsLexData.hasOptions
  /\ pc = "main"
  /\ exitCode = -1
  /\ errorMsg = ""
  /\ setsGrammar = NoGrammar
  /\ parserRun = <<>>
  /\ pipeline = ""
  /\ grammar = NoGrammar
  /\ conflictsData \in ConflictTables(MaxConflicts)
  /\ steps = <<>>

SpecValidate == InitValidate /\ [][Next]_vars


\* ------------------------------------------------------------------------
\* Running a generated Lua tokenizer

MaxInputLen == 3
MaxStates   == 2

Sigma == {"a", "i", " ", "\n"}

RECURSIVE StringsUpTo(_)
StringsUpTo(n) ==
  IF n = 0 THEN {<<>>}
  ELSE LET shorter == StringsUpTo(n - 1)
       IN  shorter \cup {Append(w, c) : w \in shorter, c \in Sigma}

Rule(matcher, conds, action) ==
  [matcher |-> matcher, conds |-> conds, action |-> action, ci |-> FALSE]

Whitespace == {" ", "\n"}

\* Whitespace skipped in both conditions; "a" before "a+"; "i+" only in
\* the comment condition.
WordsGrammar ==
  << Rule(<<Item(Whitespace, "+")>>, {"INITIAL", "comment"}, ReturnsNil),
     Rule(<<Item({"a"}, "1")>>, {"INITIAL"}, Returns("X")),
     Rule(<<Item({"a"}, "+")>>, {"INITIAL"}, Returns("A")),
     Rule(<<Item({"i"}, "+")>>, {"comment"}, Returns("I")) >>

\* A rule returning three token types, one returning '', a skip, and a
\* case-insensitive rule.
TableGrammar ==
  << Rule(<<Item({"a"}, "+")>>, {"INITIAL"}, ReturnsTable(<<"A", "B", "C">>)),
     Rule(<<Item({" "}, "1")>>, {"INITIAL"}, Returns("")),
     Rule(<<Item({"\n"}, "1")>>, {"INITIAL"}, ReturnsNil),
     [Rule(<<Item({"i"}, "1")>>, {"INITIAL"}, Returns("I")) EXCEPT
        !.ci = TRUE] >>

\* A skip rule that matches the empty string.
OptionalSkipGrammar ==
  << Rule(<<Item({"a"}, "+")>>, {"INITIAL"}, Returns("A")),
     Rule(<<Item(Whitespace, "*")>>, {"INITIAL"}, ReturnsNil) >>

\* A token rule that matches the empty string, after the other rules.
OptionalTokenGrammar ==
  << Rule(<<Item({"a"}, "+")>>, {"INITIAL"}, Returns("A")),
     Rule(<<Item({"i"}, "1")>>, {"INITIAL"}, ReturnsTable(<<"I", "X">>)),
     Rule(<<Item(Whitespace, "*")>>, {"INITIAL"}, Returns("WS")) >>

\* Whitespace is a token of its own.
LinesGrammar ==
  << Rule(<<Item(Whitespace, "+")>>, {"INITIAL"}, Returns("WS")),
     Rule(<<Item({"a"}, "+")>>, {"INITIAL"}, Returns("A")) >>

LexGrammars ==
  {WordsGrammar, TableGrammar, OptionalSkipGrammar, OptionalTokenGrammar,
   LinesGrammar}

\* The start conditions the lex grammar has rules for.
ConditionsOf(rules) == UNION {rules[i].conds : i \in 1..Len(rules)}

CliIdle ==
  /\ argvMode = <<>>
  /\ options \in OptionRecords(<<>>)
  /\ options.grammar = <<>> /\ options.lex = "" /\ options.sets = ""
  /\ ~options.version /\ ~options.tokenizerOnly /\ ~options.tokenize
  /\ ~options.ignoreWhitespaces /\ ~options.caseInsensitive
  /\ ~options.output /\ ~options.parse /\ ~options.file
  /\ conflictsData = <<>>
  /\ steps = <<>>
  /\ fsGrammarLex = NullData
  /\ fsLexData = NullData
  /\ pc = "main"
  /\ exitCode = -1
  /\ errorMsg = ""
  /\ setsGrammar = NoGrammar
  /\ parserRun = <<>>
  /\ pipeline = ""
  /\ grammar = NoGrammar

\* Tokenizer:new(tokenizingString) on a generated tokenizer.
InitTokenizer ==
  /\ CliIdle
  /\ CalcIdle
  /\ lexGrammar \in LexGrammars
  /\ \E str \in StringsUpTo(MaxInputLen) : tk = initString(str)
  /\ lastCall = NoCall
  /\ matches = <<>>
  /\ consumed = <<>>
  /\ popResult = ""

RECURSIVE Lexemes(_)
Lexemes(ms) == IF ms = <<>> THEN <<>> ELSE Head(ms).lexeme \o Lexemes(Tail(ms))

\* A getNextToken call that has not returned keeps the caller.
Running == lastCall.kind # "hang"

GetNextToken ==
  /\ Running
  /\ \E r \in {getNextToken(tk, lexGrammar)} :
       /\ tk' = r.self
       /\ lastCall' = r.ret
       /\ matches' = r.matches
       /\ consumed' = consumed \o Lexemes(r.matches)
  /\ UNCHANGED <<cliVars, calcVars, genVars, lexGrammar, popResult>>

PushState ==
  /\ Running
  /\ Len(tk._states) < MaxStates
  /\ \E state \in ConditionsOf(lexGrammar) : tk' = pushState(tk, state)
  /\ UNCHANGED <<cliVars, calcVars, genVars, lexGrammar, lastCall, matches, consumed, popResult>>

Begin ==
  /\ Running
  /\ Len(tk._states) < MaxStates
  /\ \E state \in ConditionsOf(lexGrammar) : tk' = begin(tk, state)
  /\ UNCHANGED <<cliVars, calcVars, genVars, lexGrammar, lastCall, matches, consumed, popResult>>

PopState ==
  /\ Running
  /\ \E r \in {popState(tk)} :
       /\ tk' = r.self
       /\ popResult' = r.ret
  /\ UNCHANGED <<cliVars, calcVars, genVars, lexGrammar, lastCall, matches, consumed>>

NextTokenizer ==
  \/ GetNextToken
  \/ PushState
  \/ Begin
  \/ PopState

SpecTokenizer == InitTokenizer /\ [][NextTokenizer]_vars

\* ------------------------------------------------------------------------
\* The generated calc parser on token strings

MaxOperators == 3

Operands == {Token("NUMBER", n) : n \in 1..3}
OperatorTokens == {Token(operators[i][2], 0) : i \in 1..Len(operators)}

\* n op n ... op n with at most k operators.
RECURSIVE Expressions(_)
Expressions(k) ==
  IF k = 0 THEN {<<n>> : n \in Operands}
  ELSE LET shorter == Expressions(k - 1)
       IN  shorter \cup
           {e \o <<o, n>> : e \in shorter, o \in OperatorTokens, n \in Operands}

\* ( n op n ) op n
Parenthesised ==
  {<<Token("(", 0)>> \o e \o <<Token(")", 0), o, n>> :
     e \in Expressions(1), o \in OperatorTokens, n \in Operands}

InitCalc ==
  /\ CliIdle
  /\ GenIdle
  /\ lexGrammar = <<>>
  /\ tk = initString(<<>>)
  /\ lastCall = NoCall
  /\ matches = <<>>
  /\ consumed = <<>>
  /\ popResult = ""
  /\ calcSource \in Expressions(MaxOperators) \cup Parenthesised
  /\ calcInput = calcSource
  /\ calcStack = <<>>
  /\ calcResult = -1

CalcShift ==
  /\ calcResult = -1
  /\ ParserAction(calcStack, calcInput) = "shift"
  /\ calcStack' = Append(calcStack, Head(calcInput))
  /\ calcInput' = Tail(calcInput)
  /\ UNCHANGED <<cliVars, tokVars, genVars, calcSource, calcResult>>

CalcReduce ==
  /\ calcResult = -1
  /\ ParserAction(calcStack, calcInput) = "reduce"
  /\ calcStack' = Reduced(calcStack, CHOOSE i \in Handles(calcStack) : TRUE)
  /\ UNCHANGED <<cliVars, tokVars, genVars, calcSource, calcInput, calcResult>>

CalcAccept ==
  /\ calcResult = -1
  /\ ParserAction(calcStack, calcInput) = "accept"
  /\ calcResult' = calcStack[1].val
  /\ UNCHANGED <<cliVars, tokVars, genVars, calcSource, calcInput, calcStack>>

NextCalc == CalcShift \/ CalcReduce \/ CalcAccept

SpecCalc == InitCalc /\ [][NextCalc]_vars

\* ------------------------------------------------------------------------
\* The Lua generator: generateParserData

MaxProductions == 3

\* Productions as buildSemanticAction sees them: the semantic action code
\* ("" if the production has none) and the action's parameters.
Productions ==
  [action : {"", "$$ = $1", "$$ = $1 + $3"},
   params : {"", "_1", "_1,_2,_3"}]

InitGenerator ==
  /\ CliIdle
  /\ lexGrammar \in LexGrammars
  /\ tk = initString(<<>>)
  /\ lastCall = NoCall
  /\ matches = <<>>
  /\ consumed = <<>>
  /\ popResult = ""
  /\ calcSource = <<>>
  /\ calcInput = <<>>
  /\ calcStack = <<>>
  /\ calcResult = -1
  /\ GenIdle

\* One production's handler is built while the productions data is.
BuildSemanticAction ==
  /\ ~written.handlers
  /\ Len(built) < MaxProductions
  /\ \E production \in Productions :
       \E r \in {buildSemanticAction(_productionHandlers, production)} :
         /\ _productionHandlers' = r.handlers
         /\ built' = Append(built, [production |-> production,
                                    returned |-> r.ret])
  /\ UNCHANGED <<cliVars, tokVars, calcVars, _lexHandlers, written>>

\* generateLexRules: once per generator, on the handlers list it was
\* constructed with.
GenerateLexRules ==
  /\ ~written.handlers
  /\ written.LEX_RULES = <<>>
  /\ _lexHandlers = <<>>
  /\ _lexHandlers' = lexHandlers(lexGrammar)
  /\ written' = [written EXCEPT !.LEX_RULES = generateLexRules(lexGrammar)]
  /\ UNCHANGED <<cliVars, tokVars, calcVars, _productionHandlers, built>>

\* generateLexHandlers and generateProductionHandlers.
GenerateHandlers ==
  /\ ~written.handlers
  /\ written.LEX_RULES # <<>>
  /\ written' = [written EXCEPT
                   !.LEX_RULE_HANDLERS = generateHandlers(_lexHandlers),
                   !.PRODUCTION_HANDLERS =
                      generateHandlers(_productionHandlers),
                   !.handlers = TRUE]
  /\ UNCHANGED <<cliVars, tokVars, calcVars, _lexHandlers,
                 _productionHandlers, built>>

NextGenerator == BuildSemanticAction \/ GenerateLexRules \/ GenerateHandlers

SpecGenerator == InitGenerator /\ [][NextGenerator]_vars

\* ------------------------------------------------------------------------
\* Mode resolution

\* s and k are the same string up to letter case.
CaseInsensitiveEqual(s, k) ==
  /\ Len(s) = Len(k)
  /\ \A i \in 1..Len(s) :
       \/ s[i] = k[i]
       \/ \E j \in 1..Len(LowerChars) :
            {s[i], k[i]} = {LowerChars[j], UpperChars[j]}

\* The extension of a path: what follows the last "." of its last portion,
\* a "." that starts the portion not counting.
ExtensionOf(p) ==
  LET dots == {k \in 2..Len(p) :
                 /\ p[k] = "."
                 /\ p[k - 1] # "/"
                 /\ \A j \in (k + 1)..Len(p) : p[j] \notin {".", "/"}}
  IN  IF dots = {} THEN <<>>
      ELSE LET k == CHOOSE d \in dots : TRUE IN SubSeq(p, k + 1, Len(p))

\* The mode string the command line asks for: -m, else the extension.
RequestedMode ==
  IF argvMode # <<>> THEN argvMode ELSE ExtensionOf(options.grammar)

KnownModes == {LR0, SLR1, CLR1, LALR1, LALR1_BY_SLR1, LALR1_BY_CLR1, LL1}

RequestedKnown == {k \in KnownModes : CaseInsensitiveEqual(RequestedMode, k)}

ExtractErrors ==
  {"mode required", "not a valid parsing mode", "not implemented yet"}

\* C1: extractMode resolves the requested mode (given in any letter case,
\* or inferred from the grammar file extension) to its upper-case form,
\* which is a known mode; LALR1 runs the LR pipeline on a grammar built
\* with mode LALR1_BY_SLR1, every other mode its own pipeline and mode; a
\* mode that is absent and not inferable, or unknown, ends main with an
\* error and no parser is run.
C1_ModeResolution ==
  /\ [][ pc = "extract" /\ pc' # "extract" =>
           IF RequestedKnown # {}
             THEN /\ pc' = "parser"
                  /\ options'.mode \in RequestedKnown
             ELSE /\ pc' = "exit"
                  /\ exitCode' = 1
                  /\ errorMsg' \in ExtractErrors ]_vars
  /\ [][ pc = "parser" /\ pc' # "parser" =>
           /\ parserRun' = options.mode
           /\ pipeline' = IF options.mode = LL1 THEN "LL1" ELSE "_genericLR"
           /\ grammar'.kind = "grammar" =>
                grammar'.mode = IF options.mode = LALR1 THEN LALR1_BY_SLR1
                                ELSE options.mode ]_vars
  /\ [](errorMsg \in ExtractErrors =>
          pc = "exit" /\ parserRun = <<>> /\ pipeline = ""
          /\ grammar = NoGrammar)

\* C1 witness: `-m lalr1` typed in lower case ran the LR pipeline on a
\* grammar of mode LALR1_BY_SLR1.
C1_Witness ==
  /\ argvMode = Str_lalr1
  /\ parserRun = LALR1
  /\ pipeline = "_genericLR"
  /\ grammar.kind = "grammar"
  /\ grammar.mode = LALR1_BY_SLR1

\* ------------------------------------------------------------------------
\* Lex merging and the lex options

ParserBuiltGrammar == parserRun # <<>> /\ pc \in {"done", "exit"}

HasEmbeddedLex == ~fsGrammarLex.isNull
HasExternalLex == options.lex # ""

\* The external data with options['case-insensitive'] set.
WithCaseInsensitive(d) == [d EXCEPT !.hasOptions = TRUE, !.ci = TRUE]

\* C2 (as amended): with an embedded lex section and an external lex
\* grammar the rule list is the embedded rules followed by the external
\* rules, each in its order; with no embedded lex the lex grammar is the
\* external lex data, with options['case-insensitive'] set to true when
\* the case-insensitive option is given.
C2_LexMerge ==
  ParserBuiltGrammar /\ HasExternalLex =>
    /\ grammar.kind = "grammar"
    /\ HasEmbeddedLex =>
         grammar.lex.rules = fsGrammarLex.rules \o fsLexData.rules
    /\ ~HasEmbeddedLex =>
         grammar.lex = IF options.caseInsensitive
                         THEN WithCaseInsensitive(fsLexData)
                         ELSE fsLexData

\* C2 as stated: with no embedded lex the lex grammar is exactly the
\* external lex data.
C2_Original ==
  ParserBuiltGrammar /\ HasExternalLex =>
    /\ grammar.kind = "grammar"
    /\ HasEmbeddedLex =>
         grammar.lex.rules = fsGrammarLex.rules \o fsLexData.rules
    /\ ~HasEmbeddedLex => grammar.lex = fsLexData

\* C2 witness: a grammar was built from an embedded lex section merged
\* with a two-rule external lex file.
C2_Witness ==
  /\ ParserBuiltGrammar
  /\ HasExternalLex
  /\ HasEmbeddedLex
  /\ Len(fsLexData.rules) = 2
  /\ Len(grammar.lex.rules) = 4

\* C3 as stated: with --ignore-whitespaces the whitespace rule is in the
\* lex rules exactly when no lex grammar exists, external or embedded.
C3_IgnoreWhitespaces ==
  ParserBuiltGrammar /\ options.ignoreWhitespaces /\ grammar.kind = "grammar"
    => (WhitespaceRule \in Range(grammar.lex.rules)
          <=> ~HasEmbeddedLex /\ ~HasExternalLex)

\* C4 as stated: with --case-insensitive the lex data handed to
\* Grammar.fromData carries options['case-insensitive'] = true and the
\* grammar is built, whatever lex there is.
C4_CaseInsensitive ==
  ParserBuiltGrammar /\ options.caseInsensitive =>
    /\ grammar.kind = "grammar"
    /\ grammar.lex.hasOptions
    /\ grammar.lex.ci

\* ------------------------------------------------------------------------
\* Lua tokenizer: rule choice and cursor

\* The rule list of the start condition on top of the stack: the 0-based
\* indices of the rules that name it, in rule order.
TopState == tk._states[Len(tk._states)]

RulesOfTopState ==
  SelectSeq([i \in 1..Len(lexGrammar) |-> i - 1],
            LAMBDA k : TopState \in lexGrammar[k + 1].conds)

\* The pattern the generated tokenizer holds for the rule of 0-based
\* index k: its matcher, then "i" if the rule is case-insensitive.
PatternItems(k) ==
  lexGrammar[k + 1].matcher \o
    (IF lexGrammar[k + 1].ci THEN <<Item({"i"}, "1")>> ELSE <<>>)

\* Rule k matches the input at offset c, and the lexeme it takes there.
MatchesAt(k, c) == MatchItems(PatternItems(k), tk._string, c + 1) # -1
LexemeAt(k, c) ==
  SubSeq(tk._string, c + 1, MatchItems(PatternItems(k), tk._string, c + 1))

FirstRuleAt(c) ==
  LET ks == {i \in 1..Len(RulesOfTopState) : MatchesAt(RulesOfTopState[i], c)}
  IN  RulesOfTopState[CHOOSE i \in ks : \A j \in ks : i <= j]

\* A step that is a getNextToken call (the other calls change the stack of
\* start conditions or the value popState returned).
IsGetNextToken == tk'._states = tk._states /\ popResult' = popResult

\* Each match ms[n] of a call applied the first rule of the current start
\* condition that matches at the cursor and took its lexeme there; the
\* next match starts where it left the cursor, and the call leaves the
\* cursor there too (one further once the end of input is reported).
FirstAnchoredMatches(ms, cursorAfter, kind) ==
  \A n \in 1..Len(ms) :
    /\ \E i \in 1..Len(RulesOfTopState) :
         MatchesAt(RulesOfTopState[i], ms[n].cursor)
    /\ ms[n].rule = FirstRuleAt(ms[n].cursor)
    /\ ms[n].lexeme = LexemeAt(ms[n].rule, ms[n].cursor)
    /\ n > 1 => ms[n].cursor = ms[n - 1].after
    /\ n = Len(ms) =>
         cursorAfter = IF kind = "eof" THEN Len(tk._string) + 1
                       ELSE ms[n].after

\* The lexemes consumed so far are the input up to the cursor (up to its
\* end once the cursor stands past it).
ConsumedIsPrefix ==
  /\ Len(consumed) = IF tk._cursor > Len(tk._string) THEN Len(tk._string)
                     ELSE tk._cursor
  /\ consumed = SubSeq(tk._string, 1, Len(consumed))

\* C5 (as amended): getNextToken applies the first rule, in the order of
\* the rule list of the top-of-stack start condition, that matches at the
\* cursor; the lexeme is a prefix of the remaining input; the cursor
\* advances to the end of the lexeme, except that an empty match at the
\* end of the input moves it one past the end; the consumed lexemes
\* concatenated are the consumed prefix of the input.
C5_FirstAnchoredMatch ==
  /\ []ConsumedIsPrefix
  /\ [][ IsGetNextToken =>
           /\ FirstAnchoredMatches(matches', tk'._cursor, lastCall'.kind)
           /\ \A n \in 1..Len(matches') :
                matches'[n].after =
                  IF matches'[n].lexeme = <<>>
                       /\ matches'[n].cursor = Len(tk._string)
                    THEN matches'[n].cursor + 1
                    ELSE matches'[n].cursor + Len(matches'[n].lexeme)
         ]_vars

\* C5 as stated: after every match the cursor is at the end of the lexeme.
C5_Original ==
  /\ []ConsumedIsPrefix
  /\ [][ IsGetNextToken =>
           /\ FirstAnchoredMatches(matches', tk'._cursor, lastCall'.kind)
           /\ \A n \in 1..Len(matches') :
                matches'[n].after =
                  matches'[n].cursor + Len(matches'[n].lexeme)
         ]_vars

\* C5 witness: in the comment condition, after skipped whitespace, the
\* rule "i+" (the comment condition's second rule) took two characters.
C5_Witness ==
  /\ lexGrammar = WordsGrammar
  /\ TopState = "comment"
  /\ Len(matches) = 2
  /\ matches[2].rule = 3
  /\ matches[2].lexeme = <<"i", "i">>
  /\ lastCall.kind = "token"

\* ------------------------------------------------------------------------
\* Lua tokenizer: what getNextToken returns

LastMatch == matches[Len(matches)]

\* C6: when a rule action returns the token types <<t1, ..., tn>>, the
\* call returns a token of type t1 and queues t2..tn in order; while the
\* queue is not empty a call returns a token of the type at its head,
\* removes it, and leaves the cursor where it is.
C6_QueuedTokens ==
  /\ [](matches # <<>> /\ lastCall.kind = "token"
          /\ LastMatch.returned.kind = "table"
          /\ Len(LastMatch.returned.val) >= 1
        => /\ lastCall.type = tokensMap(<<LastMatch.returned.val[1]>>)
           /\ tk._tokensQueue = Tail(LastMatch.returned.val))
  /\ [][ tk._tokensQueue # <<>> =>
           /\ tk'._cursor = tk._cursor
           /\ IsGetNextToken =>
                /\ lastCall'.kind = "token"
                /\ lastCall'.type = tokensMap(<<Head(tk._tokensQueue)>>)
                /\ tk'._tokensQueue = Tail(tk._tokensQueue)
                /\ matches' = <<>> ]_vars

\* C6 witness: the third type of a returned table came out of the queue,
\* the cursor still where the match left it.
C6_Witness ==
  /\ lexGrammar = TableGrammar
  /\ lastCall.kind = "token"
  /\ lastCall.type = tokensMap(<<"C">>)
  /\ matches = <<>>
  /\ tk._tokensQueue = <<>>
  /\ tk._cursor = 2
  /\ Len(tk._string) = 3

\* C7 as stated: a rule action that returns nothing or the empty string
\* is a skip, so no call returns a token made from such a match.
C7_EmptyReturnSkips ==
  matches # <<>> /\ lastCall.kind = "token" =>
    /\ LastMatch.returned # ReturnsNil
    /\ LastMatch.returned # Returns("")

\* No rule of the current start condition matches the empty string at the
\* end of the input.
NoEmptyMatchAtEnd ==
  \A i \in 1..Len(RulesOfTopState) :
    ~MatchesAt(RulesOfTopState[i], Len(tk._string))

\* C8 (as amended): at the end of the input with an empty queue a call
\* returns the EOF token, unless a rule of the current start condition
\* matches the empty string there, in which case that rule's action is
\* applied, once: the cursor then stands past the end; past the end a
\* call returns the EOF token; after an EOF token every later call returns
\* the EOF token.
C8_EndOfInput ==
  /\ [][ IsGetNextToken /\ tk._tokensQueue = <<>>
           /\ tk._cursor >= Len(tk._string) =>
           /\ tk'._cursor = Len(tk._string) + 1
           /\ (NoEmptyMatchAtEnd \/ tk._cursor > Len(tk._string))
                => lastCall'.kind = "eof" /\ lastCall'.type = tokensMap(EOF)
         ]_vars
  /\ [][ IsGetNextToken /\ lastCall.kind = "eof" => lastCall'.kind = "eof"
         ]_vars

\* C8 as stated: at the end of the input with an empty queue a call
\* returns the EOF token.
C8_Original ==
  /\ [][ IsGetNextToken /\ tk._tokensQueue = <<>>
           /\ tk._cursor >= Len(tk._string) =>
           lastCall'.kind = "eof" /\ lastCall'.type = tokensMap(EOF) ]_vars
  /\ [][ IsGetNextToken /\ lastCall.kind = "eof" => lastCall'.kind = "eof"
         ]_vars

\* C8 witness: a three-character input was consumed, the queue is empty
\* and the EOF token was returned.
C8_Witness ==
  /\ lastCall.kind = "eof"
  /\ consumed = tk._string
  /\ Len(tk._string) = 3
  /\ tk._tokensQueue = <<>>
  /\ Len(tk._states) = 2

\* ------------------------------------------------------------------------
\* Lua tokenizer: locations

\* The offset just after the last newline before offset c, 0 if none.
LineBeginBefore(c) ==
  LET nls == {k \in 1..c : tk._string[k] = "\n"}
  IN  IF nls = {} THEN 0 ELSE CHOOSE k \in nls : \A j \in nls : j <= k

\* The 1-based line of offset c.
LineOf(c) == 1 + Cardinality({k \in 1..c : tk._string[k] = "\n"})

\* C9 as stated: with the cursor before the end of the input and no rule
\* of the current start condition matching there, a call fails with an
\* error that names the character at the cursor and the cursor's line and
\* column, returns no token and leaves the tokenizer as it was.
C9_UnexpectedToken ==
  [][ IsGetNextToken /\ tk._tokensQueue = <<>>
        /\ tk._cursor < Len(tk._string)
        /\ (\A i \in 1..Len(RulesOfTopState) :
              ~MatchesAt(RulesOfTopState[i], tk._cursor))
      => /\ lastCall'.kind = "error"
         /\ lastCall'.symbol = <<tk._string[tk._cursor + 1]>>
         /\ lastCall'.line = LineOf(tk._cursor)
         /\ lastCall'.column = tk._cursor - LineBeginBefore(tk._cursor)
         /\ tk' = tk ]_vars

\* C10 as stated: the columns of every token are its offsets counted
\* from the beginning of its line.
C10_Columns ==
  lastCall.kind = "token" =>
    /\ lastCall.startColumn =
         lastCall.startOffset - LineBeginBefore(lastCall.startOffset)
    /\ lastCall.endColumn =
         lastCall.endOffset - LineBeginBefore(lastCall.endOffset)

\* ------------------------------------------------------------------------
\* Exit codes

NoInputOptions == options.grammar = <<>> /\ options.lex = ""

\* C11: every reported error ends the invocation with exit code 1 (no
\* grammar and no lex option, a missing or invalid mode, a parse failure);
\* after a parse failure no later step of the pipeline is run; an
\* invocation that ends without error exits with 0.
C11_ExitCodes ==
  /\ [](pc = "exit" <=> exitCode = 1)
  /\ [](pc = "done" <=> exitCode = 0)
  /\ [](errorMsg # "" => exitCode = 1)
  /\ [][ pc = "main" /\ NoInputOptions /\ ~options.version =>
           exitCode' = 1 /\ errorMsg' # "" ]_vars
  /\ [][ pc = "extract" /\ RequestedKnown = {} =>
           exitCode' = 1 /\ errorMsg' \in ExtractErrors ]_vars
  /\ [](\A n \in 1..Len(steps) :
          steps[n] \in {"parse threw", "file threw"} =>
            n = Len(steps) /\ exitCode = 1)

\* C11 witness: the string was parsed, the parse of the file failed, and
\* neither the token listing nor the parser emission that were asked for
\* took place.
C11_Witness ==
  /\ steps = <<"parse accepted", "file threw">>
  /\ options.tokenize /\ options.output
  /\ pc = "exit"
  /\ exitCode = 1

\* ------------------------------------------------------------------------
\* Validate mode

OnlyConflicts ==
  \A i \in 1..Len(conflictsData) :
    conflictsData[i].type \in {"SR_CONFLICT", "RR_CONFLICT"}

Validated == options.validate /\ pipeline = "_genericLR"

\* The steps asked for after validation, when every parse is accepted.
StepsAfterValidate ==
  (IF options.table THEN <<"table">> ELSE <<>>)
  \o (IF options.parse THEN <<"parse accepted">> ELSE <<>>)
  \o (IF options.file THEN <<"file accepted">> ELSE <<>>)
  \o (IF options.tokenize THEN <<"tokens">> ELSE <<>>)
  \o (IF options.output THEN <<"output">> ELSE <<>>)

\* C12: whatever mix of resolved and unresolved shift-reduce and
\* reduce-reduce records the table has, validateLRGrammar reports and
\* returns: main neither throws nor exits there and the later steps that
\* were asked for still run; it reports no conflicts exactly when no
\* record is unresolved.
C12_ValidateReturns ==
  /\ [][ pc = "validate" /\ Validated /\ OnlyConflicts =>
           /\ pc' = "parseString"
           /\ exitCode' = -1
           /\ Len(steps') > Len(steps)
           /\ steps'[Len(steps) + 1] =
                IF \A i \in 1..Len(conflictsData) : conflictsData[i].resolved
                  THEN "validate: no conflicts"
                  ELSE "validate: unresolved conflicts" ]_vars
  /\ [](pc = "done" /\ Validated /\ OnlyConflicts =>
          SubSeq(steps, 2, Len(steps)) = StepsAfterValidate)

\* C12 witness: the table had an unresolved shift-reduce and an unresolved
\* reduce-reduce conflict, validation reported them, and the table print,
\* the parse, the token listing and the emission that follow it were run.
C12_Witness ==
  /\ pc = "done"
  /\ Len(conflictsData) = 2
  /\ conflictsData[1].type = "SR_CONFLICT" /\ ~conflictsData[1].resolved
  /\ conflictsData[2].type = "RR_CONFLICT" /\ ~conflictsData[2].resolved
  /\ steps = <<"validate: unresolved conflicts", "table", "parse accepted",
               "tokens", "output">>

\* ------------------------------------------------------------------------
\* Operator precedence of the calculator grammar

\* The levels and associativity the claim gives the operators.
ClaimedLevel(t) == CASE t = "+" -> 1 [] t = "*" -> 2 [] t = "^" -> 3
ClaimedRight(t) == t = "^"

\* What the claim chooses between reducing E p E and shifting t.
ClaimedChoice(p, t) ==
  IF ClaimedLevel(p) > ClaimedLevel(t) THEN "reduce"
  ELSE IF ClaimedLevel(p) < ClaimedLevel(t) THEN "shift"
  ELSE IF ClaimedRight(p) THEN "shift" ELSE "reduce"

Num(n) == Token("NUMBER", n)
Op(t) == Token(t, 0)

\* 2^2^2^2 and 1+2*3
TwoToTheTwo == <<Num(2), Op("^"), Num(2), Op("^"), Num(2), Op("^"), Num(2)>>
OnePlusTwoTimesThree == <<Num(1), Op("+"), Num(2), Op("*"), Num(3)>>

\* C13: with left "+", left "*", right "^" in ascending levels, every
\* shift-reduce conflict between a production E p E and an operator t is
\* resolved as the levels and the associativity say, none stays
\* unresolved, the parser follows that choice, and 2^2^2^2 evaluates to
\* 65536, 1+2*3 to 7.
C13_Precedence ==
  /\ \A p \in {"+", "*", "^"}, t \in {"+", "*", "^"} :
       /\ OperatorLevel(t) = ClaimedLevel(t)
       /\ ResolveSR(<<"E", p, "E">>, t) = ClaimedChoice(p, t)
  /\ [][ /\ Len(calcStack) >= 3
         /\ calcStack[Len(calcStack)].sym = "E"
         /\ calcStack[Len(calcStack) - 1].sym \in {"+", "*", "^"}
         /\ calcInput # <<>>
         /\ calcInput[1].sym \in {"+", "*", "^"}
         => IF ClaimedChoice(calcStack[Len(calcStack) - 1].sym,
                             calcInput[1].sym) = "shift"
              THEN calcInput' = Tail(calcInput)
              ELSE calcInput' = calcInput
                   /\ Len(calcStack') = Len(calcStack) - 2 ]_vars
  /\ [](calcResult # -1 /\ calcSource = TwoToTheTwo => calcResult = 65536)
  /\ [](calcResult # -1 /\ calcSource = OnePlusTwoTimesThree
          => calcResult = 7)

\* C13 witness: 2^2^2^2 was parsed and gave 65536.
C13_Witness ==
  /\ calcSource = TwoToTheTwo
  /\ calcResult = 65536

\* ------------------------------------------------------------------------
\* The stack of start conditions

Depth == Len(tk._states)

\* C14: the stack of start conditions is never empty and its bottom is
\* "INITIAL"; getCurrentState returns its top; pushState and begin put
\* one state on top; popState on a stack of depth 1 removes nothing and
\* returns "INITIAL", on a deeper stack it removes the top and returns it.
C14_StateStack ==
  /\ [](/\ Depth >= 1
        /\ tk._states[1] = "INITIAL"
        /\ getCurrentState(tk) = tk._states[Depth])
  /\ [][ Len(tk'._states) > Depth =>
           /\ Len(tk'._states) = Depth + 1
           /\ SubSeq(tk'._states, 1, Depth) = tk._states
           /\ popResult' = popResult ]_vars
  /\ [][ popResult' # popResult \/ Len(tk'._states) < Depth =>
           IF Depth = 1
             THEN tk'._states = tk._states /\ popResult' = "INITIAL"
             ELSE /\ tk'._states = SubSeq(tk._states, 1, Depth - 1)
                  /\ popResult' = tk._states[Depth] ]_vars

\* C14 witness: "comment" was pushed on "INITIAL", a token was read in
\* it, and popState removed and returned it.
C14_Witness ==
  /\ lexGrammar = WordsGrammar
  /\ Depth = 1
  /\ popResult = "comment"
  /\ lastCall.kind = "token"
  /\ lastCall.type = tokensMap(<<"I">>)

\* ------------------------------------------------------------------------
\* Handler numbering of the Lua generator

\* The number of calls among the first n that had an action.
WithAction(n) ==
  Cardinality({j \in 1..n : built[j].production.action # ""})

\* The handler emitted under the name n, among hs.
Named(hs, n) == {hs[k] : k \in {j \in 1..Len(hs) : hs[j].name = n}}

\* C15: the k-th buildSemanticAction call with an action returned the name
\* k, a call without action returned null and added no handler; the
\* production handler emitted under the name k has that production's
\* parameters and action; the lex rule at 0-based index i is emitted with
\* the name i + 1, under which its handler is emitted.
C15_HandlerNumbering ==
  /\ Len(_productionHandlers) = WithAction(Len(built))
  /\ \A n \in 1..Len(built) :
       built[n].returned = IF built[n].production.action = "" THEN 0
                           ELSE WithAction(n)
  /\ written.handlers =>
       /\ \A n \in 1..Len(built) :
            built[n].production.action # "" =>
              Named(written.PRODUCTION_HANDLERS, built[n].returned) =
                { [name |-> built[n].returned,
                   args |-> built[n].production.params,
                   action |-> <<built[n].production.action, ";">>] }
       /\ \A i \in 0..(Len(lexGrammar) - 1) :
            Named(written.LEX_RULE_HANDLERS,
                  written.LEX_RULES[i + 1].handler) =
              { [name |-> i + 1, args |-> "",
                 action |-> lexGrammar[i + 1].action] }
  /\ written.LEX_RULES # <<>> =>
       \A i \in 0..(Len(lexGrammar) - 1) :
         written.LEX_RULES[i + 1].handler = i + 1

\* C15 witness: of three productions the second has no action; the third
\* got the name 2, and the handlers were emitted.
C15_Witness ==
  /\ Len(built) = 3
  /\ built[1].returned = 1
  /\ built[2].returned = 0
  /\ built[3].returned = 2
  /\ built[3].production.params = "_1,_2,_3"
  /\ written.handlers
  /\ Len(written.LEX_RULES) = 4

\* ------------------------------------------------------------------------
\* The mode of the sets printout

\* C16 as stated: the grammar handleSets builds has the mode extractMode
\* resolves for the parser pipeline (the upper-cased -m value or grammar
\* file extension), and no sets grammar is built when that mode is
\* invalid.
C16_SetsMode ==
  setsGrammar.kind = "grammar" =>
    /\ RequestedKnown # {}
    /\ setsGrammar.mode \in RequestedKnown

\* ------------------------------------------------------------------------
\* Tokenizer progress

\* C17 as stated: every getNextToken call returns a token or raises (none
\* recurses forever), the cursor never decreases, and every rule match
\* made before the end of the input leaves the cursor strictly further.
C17_Progress ==
  /\ [](lastCall.kind \in {"none", "token", "eof", "error"})
  /\ [][/\ tk'._cursor >= tk._cursor
        /\ IsGetNextToken =>
             \A n \in 1..Len(matches') :
               matches'[n].cursor < Len(tk._string) =>
                 matches'[n].after > matches'[n].cursor]_vars

====
